---- MODULE Spec2Model ----
(***************************************************************************)
(* Model of the expansion protocol frame codec (app/expansion_protocol.h). *)
(*                                                                         *)
(* A frame is the packed byte image of ExpansionFrame: byte 1 of the       *)
(* sequence is header.type (C offset 0), byte 2 is the first content byte  *)
(* (C offset 1), and so on up to sizeof(ExpansionFrame) bytes.             *)
(*                                                                         *)
(* Spec      drives expansion_frame_encode and expansion_frame_decode      *)
(*           over an in-memory byte stream, one action per callback        *)
(*           invocation.                                                   *)
(* SpecEval  applies the two size functions to frames and byte counts      *)
(*           drawn from bounded sets.                                      *)
(* SpecStream calls expansion_frame_decode repeatedly on a stream that     *)
(*           holds several frames back to back.                            *)
(* SpecPair  runs expansion_frame_decode twice on the same stream and the  *)
(*           same callback answers, from two different buffer contents.    *)
(***************************************************************************)
EXTENDS Integers, Sequences, FiniteSets

VARIABLES
    pc,             \* position of the caller: "start", "encoded", "recv", "done", "fault", "eval"
    tx_frame,       \* the frame handed to expansion_frame_encode
    frame,          \* the frame buffer handed to expansion_frame_decode
    wire,           \* the in-memory byte stream between sink and source
    rpos,           \* bytes of wire already handed out by the receive callback
    total_size,     \* local of expansion_frame_decode
    remaining_size, \* local of expansion_frame_decode
    enc_result,     \* return value of expansion_frame_encode ("none" before it returns, then "true" or "false")
    dec_result,     \* return value of expansion_frame_decode ("none" before it returns, then "true" or "false")
    send_calls,     \* invocations of the send callback
    send_req,       \* <<offset, data_size>> of the last send invocation
    send_ret,       \* value the last send invocation returned
    recv_calls,     \* invocations of the receive callback
    recv_req,       \* <<offset, data_size>> of the pending / last receive invocation
    recv_ret,       \* value the last receive invocation returned
    zero_calls,     \* receive invocations that returned 0
    stalled,        \* a receive invocation returned 0 although the stream held bytes
    contract_ok,    \* every receive invocation so far returned at most data_size
    overrun,        \* a byte was written or read past the end of a frame buffer
    q_frame,        \* SpecEval: frame under evaluation
    q_received,     \* SpecEval: received_size argument
    q_remaining,    \* SpecEval: result of expansion_frame_get_remaining_size
    q_prev,         \* SpecEval: result for received_size - 1
    q_encoded,      \* SpecEval: result of expansion_frame_get_encoded_size
    stream_frames,  \* SpecStream: the frames whose encodings make up the stream
    decoded,        \* SpecStream: the frames earlier calls of expansion_frame_decode returned
    frame2,         \* SpecPair: frame buffer of the second run
    total_size2,    \* SpecPair: total_size of the second run
    remaining_size2, \* SpecPair: remaining_size of the second run
    pc2,            \* SpecPair: position of the second run
    dec_result2,    \* SpecPair: return value of the second run
    recv_req2       \* SpecPair: <<offset, data_size>> of the second run's receive invocation

vars == <<pc, tx_frame, frame, wire, rpos, total_size, remaining_size,
          enc_result, dec_result, send_calls, send_req, send_ret,
          recv_calls, recv_req, recv_ret, zero_calls, stalled, contract_ok,
          overrun,
          q_frame, q_received, q_remaining, q_prev, q_encoded,
          stream_frames, decoded,
          frame2, total_size2, remaining_size2, pc2, dec_result2, recv_req2>>

drv_vars == <<pc, tx_frame, frame, wire, rpos, total_size, remaining_size,
              enc_result, dec_result, send_calls, send_req, send_ret,
              recv_calls, recv_req, recv_ret, zero_calls, stalled, contract_ok,
          overrun>>

eval_vars == <<q_frame, q_received, q_remaining, q_prev, q_encoded>>

stream_vars == <<stream_frames, decoded>>

pair_vars == <<frame2, total_size2, remaining_size2, pc2, dec_result2, recv_req2>>

(***************************************************************************)
(* Program constants                                                       *)
(***************************************************************************)
EXPANSION_MAX_DATA_SIZE == 64

ExpansionFrameTypeHeartbeat == 1
ExpansionFrameTypeStatus == 2
ExpansionFrameTypeBaudRate == 3
ExpansionFrameTypeControl == 4
ExpansionFrameTypeData == 5

\* (size_t)-1, written as the largest value of TLC's integers; every other
\* size the codec computes is at most 1 + 1 + 255.
SIZE_MAX == 2147483647

\* sizeof of the packed structures
SizeofHeader == 1
SizeofStatus == 1
SizeofBaudRate == 4
SizeofControl == 1
SizeofDataSize == 1
SizeofFrame == SizeofHeader + SizeofDataSize + EXPANSION_MAX_DATA_SIZE

Byte == 0..255

(***************************************************************************)
(* Bounds of the model                                                     *)
(***************************************************************************)
\* A short read delivers 1..MaxChunk bytes, or everything that was asked for.
MaxChunk == 2
\* SpecEval evaluates received_size = 0..MaxReceived.
MaxReceived == 259
\* The receive callback breaks its contract (reports more than data_size) at
\* most once in a decode, and only in one of the first MaxOverCall invocations.
MaxOverCall == 1
\* A byte stream of a foreign peer carries at most MaxRawPayload payload bytes
\* behind a Data header, whatever size that header declares.
MaxRawPayload == 66
\* SpecStream puts 1..MaxStreamFrames frames on the stream.
MaxStreamFrames == 2

Min(a, b) == IF a < b THEN a ELSE b

\* a bool return value as it is recorded in enc_result and dec_result
Returned(b) == IF b THEN "true" ELSE "false"

(***************************************************************************)
(* Field access through the union overlay                                  *)
(***************************************************************************)
HeaderType(f) == f[1]
StatusError(f) == f[2]
ControlCommand(f) == f[2]
DataSize(f) == f[2]
DataBytes(f) == [i \in 1..Min(DataSize(f), EXPANSION_MAX_DATA_SIZE) |-> f[2 + i]]
\* uint32_t baud, stored least significant byte first
BaudRateBaud(f) == f[2] + 256 * f[3] + 65536 * f[4] + 16777216 * f[5]

(***************************************************************************)
(* Size oracle and completeness evaluator                                  *)
(***************************************************************************)
\* Variants of the size oracle with a slip in them.
\* The default branch returns the header size.
EncodedSizeDefaultHeader(f) ==
    CASE HeaderType(f) = ExpansionFrameTypeHeartbeat -> SizeofHeader
      [] HeaderType(f) = ExpansionFrameTypeStatus -> SizeofHeader + SizeofStatus
      [] HeaderType(f) = ExpansionFrameTypeBaudRate -> SizeofHeader + SizeofBaudRate
      [] HeaderType(f) = ExpansionFrameTypeControl -> SizeofHeader + SizeofControl
      [] HeaderType(f) = ExpansionFrameTypeData ->
            SizeofHeader + SizeofDataSize + DataSize(f)
      [] OTHER -> SizeofHeader

\* The Data size leaves out the size byte.
EncodedSizeNoSizeField(f) ==
    CASE HeaderType(f) = ExpansionFrameTypeHeartbeat -> SizeofHeader
      [] HeaderType(f) = ExpansionFrameTypeStatus -> SizeofHeader + SizeofStatus
      [] HeaderType(f) = ExpansionFrameTypeBaudRate -> SizeofHeader + SizeofBaudRate
      [] HeaderType(f) = ExpansionFrameTypeControl -> SizeofHeader + SizeofControl
      [] HeaderType(f) = ExpansionFrameTypeData -> SizeofHeader + DataSize(f)
      [] OTHER -> 0

expansion_frame_get_encoded_size(f) ==
    CASE HeaderType(f) = ExpansionFrameTypeHeartbeat -> SizeofHeader
      [] HeaderType(f) = ExpansionFrameTypeStatus -> SizeofHeader + SizeofStatus
      [] HeaderType(f) = ExpansionFrameTypeBaudRate -> SizeofHeader + SizeofBaudRate
      [] HeaderType(f) = ExpansionFrameTypeControl -> SizeofHeader + SizeofControl
      [] HeaderType(f) = ExpansionFrameTypeData ->
            SizeofHeader + SizeofDataSize + DataSize(f)
      [] OTHER -> 0

\* content_size of expansion_frame_get_remaining_size once the header is in;
\* SIZE_MAX stands for the default branch, which returns at once.
ContentSize(f, received_content_size) ==
    CASE HeaderType(f) = ExpansionFrameTypeHeartbeat -> 0
      [] HeaderType(f) = ExpansionFrameTypeStatus -> SizeofStatus
      [] HeaderType(f) = ExpansionFrameTypeBaudRate -> SizeofBaudRate
      [] HeaderType(f) = ExpansionFrameTypeControl -> SizeofControl
      [] HeaderType(f) = ExpansionFrameTypeData ->
            IF received_content_size < SizeofDataSize
            THEN SizeofDataSize
            ELSE SizeofDataSize + DataSize(f)
      [] OTHER -> SIZE_MAX

\* Variants of the evaluator with a slip in them.
\* The header is counted as still to come after it is in.
RemainingSizeHeaderCounted(f, received_size) ==
    IF received_size < SizeofHeader THEN SizeofHeader
    ELSE LET received_content_size == received_size - SizeofHeader
             content_size == ContentSize(f, received_content_size)
         IN  IF content_size = SIZE_MAX THEN SIZE_MAX
             ELSE IF SizeofHeader + content_size > received_content_size
                  THEN SizeofHeader + content_size - received_content_size
                  ELSE 0

\* The Data requirement counts the payload before the size byte is in.
RemainingSizeEager(f, received_size) ==
    IF received_size < SizeofHeader THEN SizeofHeader
    ELSE LET received_content_size == received_size - SizeofHeader
             content_size ==
                 IF HeaderType(f) = ExpansionFrameTypeData
                 THEN SizeofDataSize + DataSize(f)
                 ELSE ContentSize(f, received_content_size)
         IN  IF content_size = SIZE_MAX THEN SIZE_MAX
             ELSE IF content_size > received_content_size
                  THEN content_size - received_content_size
                  ELSE 0

\* The difference is returned without the comparison that guards it.
RemainingSizeUnclamped(f, received_size) ==
    IF received_size < SizeofHeader THEN SizeofHeader
    ELSE LET received_content_size == received_size - SizeofHeader
             content_size == ContentSize(f, received_content_size)
         IN  IF content_size = SIZE_MAX THEN SIZE_MAX
             ELSE content_size - received_content_size

\* The default branch reports a complete frame.
RemainingSizeZeroDefault(f, received_size) ==
    IF received_size < SizeofHeader THEN SizeofHeader
    ELSE LET received_content_size == received_size - SizeofHeader
             content_size == ContentSize(f, received_content_size)
         IN  IF content_size = SIZE_MAX THEN 0
             ELSE IF content_size > received_content_size
                  THEN content_size - received_content_size
                  ELSE 0

\* The Data requirement leaves out the size byte once it is in.
RemainingSizeNoSizeField(f, received_size) ==
    IF received_size < SizeofHeader THEN SizeofHeader
    ELSE LET received_content_size == received_size - SizeofHeader
             content_size ==
                 IF /\ HeaderType(f) = ExpansionFrameTypeData
                    /\ received_content_size >= SizeofDataSize
                 THEN DataSize(f)
                 ELSE ContentSize(f, received_content_size)
         IN  IF content_size = SIZE_MAX THEN SIZE_MAX
             ELSE IF content_size > received_content_size
                  THEN content_size - received_content_size
                  ELSE 0

expansion_frame_get_remaining_size(f, received_size) ==
    IF received_size < SizeofHeader THEN SizeofHeader
    ELSE LET received_content_size == received_size - SizeofHeader
             content_size == ContentSize(f, received_content_size)
         IN  IF content_size = SIZE_MAX THEN SIZE_MAX
             ELSE IF content_size > received_content_size
                  THEN content_size - received_content_size
                  ELSE 0

(***************************************************************************)
(* Memory                                                                  *)
(***************************************************************************)
\* A frame buffer every byte of which holds b (contents left by earlier use).
Fill(b) == [i \in 1..SizeofFrame |-> b]

\* Store bytes at C offset off of the buffer f.  Bytes that fall past the end
\* of f land outside the frame and are not part of the result.
WriteAt(f, off, bytes) ==
    [i \in 1..Len(f) |->
        IF i > off /\ i <= off + Len(bytes) THEN bytes[i - off] ELSE f[i]]

\* The n bytes at C offset 0 of f as the send callback reads them; a byte
\* past the end of the frame is whatever lies behind it in memory (g).
ReadFrom(f, n, g) == [i \in 1..n |-> IF i <= Len(f) THEN f[i] ELSE g]

\* little-endian image of a uint32_t
U32Bytes(v) == <<v % 256, (v \div 256) % 256, (v \div 65536) % 256, (v \div 16777216) % 256>>

\* payload pattern: n bytes starting from seed
Pattern(seed, n) == [i \in 1..n |-> (seed + 37 * i) % 256]

(***************************************************************************)
(* Inputs                                                                  *)
(***************************************************************************)
\* contents a frame buffer may hold before it is used
StaleFills == {0, 5}

ErrorCodes == {0, 1, 2, 255}
BaudRates == {0, 9600, 115200, 2147483647}
CommandCodes == {0, 1, 200}
DataSizes == {0, 1, 2, 64, 65}
UnknownTypes == {0, 6, 255}

MakeHeartbeat(fill) == WriteAt(Fill(fill), 0, <<ExpansionFrameTypeHeartbeat>>)
MakeStatus(fill, error) == WriteAt(Fill(fill), 0, <<ExpansionFrameTypeStatus, error>>)
MakeBaudRate(fill, baud) ==
    WriteAt(Fill(fill), 0, <<ExpansionFrameTypeBaudRate>> \o U32Bytes(baud))
MakeControl(fill, command) == WriteAt(Fill(fill), 0, <<ExpansionFrameTypeControl, command>>)
MakeData(fill, size, seed) ==
    WriteAt(Fill(fill), 0, <<ExpansionFrameTypeData, size>> \o Pattern(seed, size))
MakeUnknown(fill, type) == WriteAt(Fill(fill), 0, <<type>>)

\* frames handed to expansion_frame_encode
TxFrames ==
    LET fills == {170} IN
    UNION { {MakeHeartbeat(x)}
            \cup {MakeStatus(x, e) : e \in ErrorCodes}
            \cup {MakeBaudRate(x, b) : b \in BaudRates}
            \cup {MakeControl(x, c) : c \in CommandCodes}
            \cup {MakeData(x, n, 1) : n \in DataSizes}
            \cup {MakeData(x, n, 128) : n \in {1, 2}}
            \cup {MakeUnknown(x, t) : t \in UnknownTypes}
          : x \in fills }

\* a frame is well formed when its type is known and a Data frame's size fits
WellFormed(f) ==
    /\ HeaderType(f) \in ExpansionFrameTypeHeartbeat..ExpansionFrameTypeData
    /\ HeaderType(f) = ExpansionFrameTypeData => DataSize(f) <= EXPANSION_MAX_DATA_SIZE

\* byte streams that reach the receiver from a peer that is not this encoder
RawTypes == {0, 1, 2, 3, 4, 5, 6, 255}
RawSecond == {0, 1, 3, 64, 65, 255}
RawStreams ==
    { <<t, b>> \o Pattern(9, IF t = ExpansionFrameTypeData THEN Min(b, MaxRawPayload) ELSE 4)
        : t \in RawTypes, b \in RawSecond }

(***************************************************************************)
(* expansion_frame_encode                                                  *)
(***************************************************************************)
\* value the send callback may report for a request of data_size bytes
SendReturns(data_size) == {0, data_size - 1, data_size, data_size + 1}

\* variant: a count above the request passes for success
EncodeReturnAtLeast(sent, encoded_size) == sent >= encoded_size

EncodeReturn(sent, encoded_size) == sent = encoded_size

\* One call.  A frame whose encoded size exceeds sizeof(ExpansionFrame) makes
\* the send callback read past the frame: it reads some byte g there, or the
\* access faults.
Encode ==
    /\ pc = "start"
    /\ wire = <<>>
    /\ LET encoded_size == expansion_frame_get_encoded_size(tx_frame) IN
       IF encoded_size # 0
       THEN \E sent \in SendReturns(encoded_size), g \in {0, 255} :
            /\ send_calls' = send_calls + 1
            /\ send_req' = <<0, encoded_size>>
            /\ send_ret' = sent
            /\ wire' = ReadFrom(tx_frame, Min(sent, encoded_size), g)
            /\ overrun' = (Min(sent, encoded_size) > SizeofFrame)
            /\ \/ /\ pc' = "encoded"
                  /\ enc_result' = Returned(EncodeReturn(sent, encoded_size))
               \/ /\ Min(sent, encoded_size) > SizeofFrame
                  /\ pc' = "fault"
                  /\ enc_result' = "none"
       ELSE /\ pc' = "encoded"
            /\ enc_result' = "false"
            /\ UNCHANGED <<send_calls, send_req, send_ret, wire, overrun>>
    /\ UNCHANGED <<tx_frame, frame, rpos, total_size, remaining_size, dec_result,
                   recv_calls, recv_req, recv_ret, zero_calls, stalled, contract_ok>>
    /\ UNCHANGED eval_vars
    /\ UNCHANGED stream_vars
    /\ UNCHANGED pair_vars

(***************************************************************************)
(* expansion_frame_decode                                                  *)
(***************************************************************************)
\* variant: the loop is left only on a complete frame
DecodeBreakOnZeroOnly(remaining) == remaining = 0

DecodeBreak(remaining) == remaining = 0 \/ remaining = SIZE_MAX

DecodeReturn(remaining) == remaining = 0

\* variant: an empty read does not leave the loop
ReceiveBreakNever(received_size) == FALSE

ReceiveBreak(received_size) == received_size = 0

\* variant: total_size = received_size
NextTotalAssign(total, received_size) == received_size

\* total_size += received_size
NextTotal(total, received_size) == total + received_size

\* Head of the while(true) loop with total bytes in buffer f: either the loop
\* is left and the function returns, or receive is invoked for the remainder.
LoopHead(f, total) ==
    LET remaining == expansion_frame_get_remaining_size(f, total) IN
    /\ total_size' = total
    /\ remaining_size' = remaining
    /\ IF DecodeBreak(remaining)
       THEN /\ pc' = "done"
            /\ dec_result' = Returned(DecodeReturn(remaining))
            /\ UNCHANGED <<recv_calls, recv_req>>
       ELSE /\ pc' = "recv"
            /\ dec_result' = "none"
            /\ recv_calls' = recv_calls + 1
            /\ recv_req' = <<total, remaining>>

\* Entry of expansion_frame_decode: total_size = 0 and the first pass
\* through the loop head.
Enter ==
    /\ LoopHead(frame, 0)
    /\ UNCHANGED <<tx_frame, frame, wire, rpos, enc_result, send_calls, send_req,
                   send_ret, recv_ret, zero_calls, stalled, contract_ok, overrun>>
    /\ UNCHANGED eval_vars

\* The receiver decodes what a successful encode put on the stream, or the
\* bytes of a foreign peer.
DecodeCall ==
    /\ \/ pc = "encoded" /\ enc_result = "true"
       \/ pc = "start" /\ wire # <<>>
    /\ Enter
    /\ UNCHANGED stream_vars
    /\ UNCHANGED pair_vars

\* numbers of bytes a receive callback that honours its contract may deliver
\* when data_size are asked for and avail are left in the stream
HonestReturns(data_size, avail) ==
    LET most == Min(data_size, avail) IN
    {0} \cup (1..Min(MaxChunk, most)) \cup {most}

\* variant: receive is handed frame instead of frame + total_size
ReceiveStoreAtStart(f, total, bytes) == WriteAt(f, 0, bytes)

\* receive stores its bytes at (uint8_t*)frame + total_size
ReceiveStore(f, total, bytes) == WriteAt(f, total, bytes)

\* The receive callback returns, having stored `written` bytes of the stream
\* at the requested offset and reporting received_size; the loop body goes on.
\* A store past the end of the frame either leaves the run of the function
\* as written or faults.
ReceiveReturns(written, received_size) ==
    LET off == recv_req[1]
        bytes == SubSeq(wire, rpos + 1, rpos + written)
        f == ReceiveStore(frame, off, bytes)
        past == written > 0 /\ off + written > SizeofFrame
    IN  /\ frame' = f
        /\ rpos' = rpos + written
        /\ recv_ret' = received_size
        /\ zero_calls' = zero_calls + (IF received_size = 0 THEN 1 ELSE 0)
        /\ stalled' = (stalled \/ (received_size = 0 /\ rpos < Len(wire)))
        /\ contract_ok' = (contract_ok /\ received_size <= recv_req[2])
        /\ overrun' = (overrun \/ past)
        /\ \/ IF ReceiveBreak(received_size)
              THEN /\ pc' = "done"
                   /\ dec_result' = Returned(DecodeReturn(remaining_size))
                   /\ UNCHANGED <<total_size, remaining_size, recv_calls, recv_req>>
              ELSE LoopHead(f, NextTotal(total_size, received_size))
           \/ /\ past
              /\ pc' = "fault"
              /\ UNCHANGED <<dec_result, total_size, remaining_size, recv_calls, recv_req>>

Receive ==
    /\ pc = "recv"
    /\ LET data_size == recv_req[2]
           avail == Len(wire) - rpos
       IN  \/ \E n \in HonestReturns(data_size, avail) : ReceiveReturns(n, n)
           \/ /\ data_size < SIZE_MAX
              /\ contract_ok
              /\ recv_calls <= MaxOverCall
              /\ ReceiveReturns(Min(data_size, avail), data_size + 1)
    /\ UNCHANGED <<tx_frame, wire, enc_result, send_calls, send_req, send_ret>>
    /\ UNCHANGED eval_vars

\* one receive invocation of the call in progress returns
DecodeRecv ==
    /\ Receive
    /\ UNCHANGED stream_vars
    /\ UNCHANGED pair_vars

(***************************************************************************)
(* Specification of the stream driver                                      *)
(***************************************************************************)
\* no stream of several frames, no second run
NoStream == stream_frames = <<>> /\ decoded = <<>>

NoPair ==
    /\ frame2 = Fill(0)
    /\ total_size2 = 0
    /\ remaining_size2 = 0
    /\ pc2 = "start"
    /\ dec_result2 = "none"
    /\ recv_req2 = <<0, 0>>

Init ==
    /\ pc = "start"
    /\ \/ wire = <<>> /\ tx_frame \in TxFrames
       \/ wire \in RawStreams /\ tx_frame = Fill(0)
    /\ frame \in {Fill(x) : x \in StaleFills}
    /\ rpos = 0
    /\ total_size = 0
    /\ remaining_size = 0
    /\ enc_result = "none"
    /\ dec_result = "none"
    /\ send_calls = 0
    /\ send_req = <<0, 0>>
    /\ send_ret = 0
    /\ recv_calls = 0
    /\ recv_req = <<0, 0>>
    /\ recv_ret = 0
    /\ zero_calls = 0
    /\ stalled = FALSE
    /\ contract_ok = TRUE
    /\ overrun = FALSE
    /\ q_frame = Fill(0)
    /\ q_received = 0
    /\ q_remaining = 0
    /\ q_prev = 0
    /\ q_encoded = 0
    /\ NoStream
    /\ NoPair

Next == Encode \/ DecodeCall \/ DecodeRecv

Spec == Init /\ [][Next]_vars

(***************************************************************************)
(* Specification of the size functions on their own                        *)
(***************************************************************************)
EvalTypes == {0, 1, 2, 3, 4, 5, 6, 255}
EvalSecond == {0, 1, 2, 5, 64, 65, 255}
\* complete frame images: the type, the second byte (error, command, low baud
\* byte or data size) and the rest of the content
EvalFrames == { WriteAt(Fill(0), 0, <<t, b>> \o Pattern(3, EXPANSION_MAX_DATA_SIZE))
                  : t \in EvalTypes, b \in EvalSecond }

InitEval ==
    /\ pc = "eval"
    /\ tx_frame = Fill(0)
    /\ frame = Fill(0)
    /\ wire = <<>>
    /\ rpos = 0
    /\ total_size = 0
    /\ remaining_size = 0
    /\ enc_result = "none"
    /\ dec_result = "none"
    /\ send_calls = 0
    /\ send_req = <<0, 0>>
    /\ send_ret = 0
    /\ recv_calls = 0
    /\ recv_req = <<0, 0>>
    /\ recv_ret = 0
    /\ zero_calls = 0
    /\ stalled = FALSE
    /\ contract_ok = TRUE
    /\ overrun = FALSE
    /\ q_frame \in EvalFrames
    /\ q_received = 0
    /\ q_remaining = expansion_frame_get_remaining_size(q_frame, 0)
    /\ q_prev = expansion_frame_get_remaining_size(q_frame, 0)
    /\ q_encoded = expansion_frame_get_encoded_size(q_frame)
    /\ NoStream
    /\ NoPair

\* one more byte counts as received and the evaluator is asked again
EvalStep ==
    /\ pc = "eval"
    /\ q_received < MaxReceived
    /\ q_received' = q_received + 1
    /\ q_prev' = q_remaining
    /\ q_remaining' = expansion_frame_get_remaining_size(q_frame, q_received + 1)
    /\ q_encoded' = expansion_frame_get_encoded_size(q_frame)
    /\ UNCHANGED <<q_frame>>
    /\ UNCHANGED drv_vars
    /\ UNCHANGED stream_vars
    /\ UNCHANGED pair_vars

NextEval == EvalStep

SpecEval == InitEval /\ [][NextEval]_vars

(***************************************************************************)
(* Specification of consecutive decodes from one stream                    *)
(***************************************************************************)
\* the bytes expansion_frame_encode hands to send for the frame f
FrameImage(f) == ReadFrom(f, expansion_frame_get_encoded_size(f), 0)

RECURSIVE Concat(_)
Concat(images) ==
    IF images = <<>> THEN <<>> ELSE Head(images) \o Concat(Tail(images))

\* well-formed frames that follow one another on the stream
SeqFrames ==
    { MakeHeartbeat(170), MakeStatus(170, 2), MakeBaudRate(170, 115200),
      MakeControl(170, 1), MakeData(170, 0, 1), MakeData(170, 3, 1) }

InitStream ==
    /\ pc = "start"
    /\ stream_frames \in UNION { [1..k -> SeqFrames] : k \in 1..MaxStreamFrames }
    /\ decoded = <<>>
    /\ wire = Concat([i \in 1..Len(stream_frames) |-> FrameImage(stream_frames[i])])
    /\ tx_frame = Fill(0)
    /\ frame \in {Fill(x) : x \in StaleFills}
    /\ rpos = 0
    /\ total_size = 0
    /\ remaining_size = 0
    /\ enc_result = "none"
    /\ dec_result = "none"
    /\ send_calls = 0
    /\ send_req = <<0, 0>>
    /\ send_ret = 0
    /\ recv_calls = 0
    /\ recv_req = <<0, 0>>
    /\ recv_ret = 0
    /\ zero_calls = 0
    /\ stalled = FALSE
    /\ contract_ok = TRUE
    /\ overrun = FALSE
    /\ q_frame = Fill(0)
    /\ q_received = 0
    /\ q_remaining = 0
    /\ q_prev = 0
    /\ q_encoded = 0
    /\ NoPair

\* After a call that returned true the caller keeps the decoded frame and
\* calls expansion_frame_decode again with the same buffer, the receive
\* callback going on where it stopped.
DecodeAgain ==
    /\ pc = "done"
    /\ dec_result = "true"
    /\ Len(decoded) + 1 < Len(stream_frames)
    /\ decoded' = Append(decoded, frame)
    /\ Enter
    /\ UNCHANGED stream_frames
    /\ UNCHANGED pair_vars

NextStream == DecodeCall \/ DecodeRecv \/ DecodeAgain

SpecStream == InitStream /\ [][NextStream]_vars

(***************************************************************************)
(* Specification of two runs of expansion_frame_decode side by side        *)
(***************************************************************************)
\* loop head of the second run
LoopHead2(f, total) ==
    LET remaining == expansion_frame_get_remaining_size(f, total) IN
    /\ total_size2' = total
    /\ remaining_size2' = remaining
    /\ IF DecodeBreak(remaining)
       THEN /\ pc2' = "done"
            /\ dec_result2' = Returned(DecodeReturn(remaining))
            /\ UNCHANGED recv_req2
       ELSE /\ pc2' = "recv"
            /\ dec_result2' = "none"
            /\ recv_req2' = <<total, remaining>>

\* The receive invocation of the second run returns what the one of the
\* first run returns in this step: the same bytes of the stream and the same
\* count.  A store past the end of the second frame either leaves the run as
\* written or faults, whatever the first run does.
Receive2 ==
    IF pc2 = "recv"
    THEN LET bytes == SubSeq(wire, rpos + 1, rpos')
             f == ReceiveStore(frame2, recv_req2[1], bytes)
             past == Len(bytes) > 0 /\ recv_req2[1] + Len(bytes) > SizeofFrame
         IN  /\ frame2' = f
             /\ \/ IF ReceiveBreak(recv_ret')
                   THEN /\ pc2' = "done"
                        /\ dec_result2' = Returned(DecodeReturn(remaining_size2))
                        /\ UNCHANGED <<total_size2, remaining_size2, recv_req2>>
                   ELSE LoopHead2(f, NextTotal(total_size2, recv_ret'))
                \/ /\ past
                   /\ pc2' = "fault"
                   /\ UNCHANGED <<total_size2, remaining_size2, dec_result2, recv_req2>>
    ELSE UNCHANGED pair_vars

InitPair ==
    /\ pc = "start"
    /\ wire \in RawStreams
    /\ tx_frame = Fill(0)
    /\ frame \in {Fill(x) : x \in StaleFills}
    /\ frame2 \in {Fill(x) : x \in StaleFills}
    /\ total_size2 = 0
    /\ remaining_size2 = 0
    /\ pc2 = "start"
    /\ dec_result2 = "none"
    /\ recv_req2 = <<0, 0>>
    /\ rpos = 0
    /\ total_size = 0
    /\ remaining_size = 0
    /\ enc_result = "none"
    /\ dec_result = "none"
    /\ send_calls = 0
    /\ send_req = <<0, 0>>
    /\ send_ret = 0
    /\ recv_calls = 0
    /\ recv_req = <<0, 0>>
    /\ recv_ret = 0
    /\ zero_calls = 0
    /\ stalled = FALSE
    /\ contract_ok = TRUE
    /\ overrun = FALSE
    /\ q_frame = Fill(0)
    /\ q_received = 0
    /\ q_remaining = 0
    /\ q_prev = 0
    /\ q_encoded = 0
    /\ NoStream

\* both runs enter expansion_frame_decode
PairCall ==
    /\ pc = "start"
    /\ Enter
    /\ LoopHead2(frame2, 0)
    /\ UNCHANGED frame2
    /\ UNCHANGED stream_vars

\* the receive invocations of both runs return
PairRecv ==
    /\ Receive
    /\ Receive2
    /\ UNCHANGED stream_vars

NextPair == PairCall \/ PairRecv

SpecPair == InitPair /\ [][NextPair]_vars

(***************************************************************************)
(* Properties of the stream driver (Spec)                                  *)
(***************************************************************************)
KnownTypes == ExpansionFrameTypeHeartbeat..ExpansionFrameTypeData

\* the two frames carry the same type and the same fields of that variant
SameFrame(a, b) ==
    /\ HeaderType(a) = HeaderType(b)
    /\ HeaderType(a) = ExpansionFrameTypeStatus => StatusError(a) = StatusError(b)
    /\ HeaderType(a) = ExpansionFrameTypeBaudRate => BaudRateBaud(a) = BaudRateBaud(b)
    /\ HeaderType(a) = ExpansionFrameTypeControl => ControlCommand(a) = ControlCommand(b)
    /\ HeaderType(a) = ExpansionFrameTypeData =>
            DataSize(a) = DataSize(b) /\ DataBytes(a) = DataBytes(b)

\* the send callback took every byte and the receive callback hands the
\* stream out without pausing while bytes are left and within its contract
InMemoryStream == send_calls = 1 /\ send_ret = send_req[2] /\ ~stalled /\ contract_ok

\* C1: a well-formed frame sent into an in-memory stream and decoded from it
\* makes expansion_frame_encode and expansion_frame_decode both return true,
\* and the decoded frame has the type and the variant fields of the original.
C1_RoundTrip ==
    (WellFormed(tx_frame) /\ InMemoryStream) =>
        /\ pc \in {"encoded", "recv", "done"}
        /\ enc_result = "true"
        /\ pc = "done" => dec_result = "true" /\ SameFrame(tx_frame, frame)

C1_Witness ==
    /\ pc = "done" /\ InMemoryStream /\ dec_result = "true"
    /\ HeaderType(tx_frame) = ExpansionFrameTypeData
    /\ DataSize(tx_frame) = EXPANSION_MAX_DATA_SIZE
    /\ DataBytes(frame) = Pattern(1, EXPANSION_MAX_DATA_SIZE)

\* C3 (as claimed): every receive request of expansion_frame_decode lies
\* inside the ExpansionFrame buffer: offset + data_size <= sizeof(ExpansionFrame).
C3_RequestInsideFrame ==
    (pc = "recv" /\ contract_ok) => recv_req[1] + recv_req[2] <= SizeofFrame

\* C4 (as claimed): a Data frame that expansion_frame_decode returned true for
\* has a size field of at most EXPANSION_MAX_DATA_SIZE.
C4_DecodedSizeBounded ==
    (pc = "done" /\ dec_result = "true" /\ contract_ok
        /\ HeaderType(frame) = ExpansionFrameTypeData)
    => DataSize(frame) <= EXPANSION_MAX_DATA_SIZE

\* C6: when the first byte the receive callback delivers is no known type,
\* expansion_frame_decode has returned false after that one invocation and
\* has requested nothing but the header.
C6_UnknownTypeFails ==
    (rpos >= 1 /\ wire[1] \notin KnownTypes) =>
        /\ pc = "done"
        /\ dec_result = "false"
        /\ recv_calls = 1
        /\ recv_req = <<0, SizeofHeader>>

C6_Witness ==
    /\ rpos = 1 /\ wire[1] = 6 /\ HeaderType(frame) = 6
    /\ pc = "done" /\ dec_result = "false" /\ recv_calls = 1

\* C7: once a receive invocation has reported 0 bytes, expansion_frame_decode
\* has returned false and that invocation was the last one; if it was the
\* first one as well, receive was invoked exactly once.
C7_ZeroReadFails ==
    zero_calls >= 1 =>
        /\ pc = "done"
        /\ dec_result = "false"
        /\ zero_calls = 1
        /\ recv_ret = 0
        /\ recv_req[1] = total_size
        /\ total_size = 0 => recv_calls = 1

C7_Witness ==
    /\ zero_calls = 1 /\ pc = "done" /\ dec_result = "false"
    /\ recv_calls = 3 /\ total_size = 2

\* C8: a well-formed frame encoded on the stream is decoded whatever the
\* lengths of the non-empty reads: expansion_frame_decode returns true, has
\* taken the whole stream and holds the bytes that were encoded.
C8_ShortReads ==
    (pc = "done" /\ WellFormed(tx_frame) /\ enc_result = "true"
        /\ ~stalled /\ contract_ok)
    => /\ dec_result = "true"
       /\ total_size = Len(wire)
       /\ SubSeq(frame, 1, total_size) = wire

\* a BaudRate frame decoded in five reads of one byte each
C8_Witness ==
    /\ pc = "done" /\ dec_result = "true" /\ contract_ok
    /\ HeaderType(tx_frame) = ExpansionFrameTypeBaudRate
    /\ BaudRateBaud(frame) = 115200
    /\ recv_calls = 5 /\ total_size = 5

\* C9: when expansion_frame_decode returns true and the callback kept its
\* contract, the bytes received are as many as the encoded size of the
\* decoded frame: 2 for a Data frame of size 0, 66 for one of size 64.
C9_ExactConsumption ==
    (pc = "done" /\ dec_result = "true" /\ contract_ok) =>
        /\ total_size = expansion_frame_get_encoded_size(frame)
        /\ rpos = total_size
        /\ (HeaderType(frame) = ExpansionFrameTypeData /\ DataSize(frame) = 0)
                => total_size = 2
        /\ (HeaderType(frame) = ExpansionFrameTypeData
                /\ DataSize(frame) = EXPANSION_MAX_DATA_SIZE)
                => total_size = 66

C9_Witness ==
    /\ pc = "done" /\ dec_result = "true" /\ contract_ok
    /\ HeaderType(frame) = ExpansionFrameTypeData
    /\ DataSize(frame) = EXPANSION_MAX_DATA_SIZE
    /\ total_size = 66 /\ rpos = 66

\* C10: for a frame of a known type expansion_frame_encode invokes send
\* exactly once, for the bytes [0, encoded_size) of the frame, and returns
\* true exactly when send reports encoded_size.
C10_EncodeOnce ==
    (enc_result # "none" /\ HeaderType(tx_frame) \in KnownTypes) =>
        /\ send_calls = 1
        /\ send_req = <<0, expansion_frame_get_encoded_size(tx_frame)>>
        /\ enc_result = "true" <=> send_ret = send_req[2]
        /\ \A i \in 1..Min(Len(wire), SizeofFrame) : wire[i] = tx_frame[i]

C10_Witness ==
    /\ pc = "encoded" /\ enc_result = "false" /\ send_calls = 1
    /\ HeaderType(tx_frame) = ExpansionFrameTypeBaudRate
    /\ send_req = <<0, 5>> /\ send_ret = 6

\* C11: for a frame whose type is outside 1..5 expansion_frame_encode returns
\* false, the send callback is never invoked and no byte reaches the stream.
C11_UnknownNotSent ==
    (enc_result # "none" /\ HeaderType(tx_frame) \notin KnownTypes) =>
        /\ enc_result = "false"
        /\ send_calls = 0
        /\ wire = <<>>

C11_Witness ==
    /\ pc = "encoded" /\ HeaderType(tx_frame) = 255
    /\ enc_result = "false" /\ send_calls = 0 /\ wire = <<>>

\* C14: while a Data frame is decoded from a callback that keeps its
\* contract, the request made with one byte received asks for exactly 1 byte
\* whatever the buffer's size byte holds, and every later request asks for
\* (2 + received size byte) - total_size bytes.
C14_SizeByteFirst ==
    (pc = "recv" /\ contract_ok /\ total_size >= 1
        /\ wire[1] = ExpansionFrameTypeData) =>
        /\ recv_req[1] = total_size
        /\ total_size = 1 => recv_req[2] = 1
        /\ total_size >= 2 => recv_req[2] = (2 + wire[2]) - total_size

\* the buffer's stale size byte is 5 when the size byte is asked for
C14_Witness ==
    /\ pc = "recv" /\ contract_ok /\ total_size = 1
    /\ HeaderType(frame) = ExpansionFrameTypeData /\ DataSize(frame) = 5
    /\ wire[2] = 64 /\ recv_req = <<1, 1>>

\* C15 (as claimed): no receive invocation makes total_size grow by more
\* than the data_size it was invoked with.
C15_GrowthWithinRequest ==
    [][pc = "recv" => total_size' - total_size <= recv_req[2]]_vars

RECURSIVE StreamEnd(_)
StreamEnd(k) ==
    IF k = 0 THEN 0 ELSE StreamEnd(k - 1) + Len(FrameImage(stream_frames[k]))

\* C17: on a stream of well-formed frames back to back, read with non-empty
\* reads within the contract, the calls of expansion_frame_decode return
\* true one after the other, yield the frames in order, and no call takes a
\* byte from behind the end of its own frame.
C17_FrameBoundaries ==
    (stream_frames # <<>> /\ ~stalled /\ contract_ok) =>
        LET k == Len(decoded) + 1 IN
        /\ k <= Len(stream_frames)
        /\ \A i \in 1..Len(decoded) : SameFrame(stream_frames[i], decoded[i])
        /\ rpos >= StreamEnd(k - 1)
        /\ rpos <= StreamEnd(k)
        /\ pc = "done" =>
                /\ dec_result = "true"
                /\ SameFrame(stream_frames[k], frame)
                /\ rpos = StreamEnd(k)

C17_Witness ==
    /\ Len(stream_frames) = 2 /\ Len(decoded) = 1 /\ pc = "done"
    /\ dec_result = "true" /\ ~stalled /\ contract_ok
    /\ HeaderType(decoded[1]) = ExpansionFrameTypeData /\ DataSize(decoded[1]) = 3
    /\ HeaderType(frame) = ExpansionFrameTypeBaudRate /\ BaudRateBaud(frame) = 115200
    /\ rpos = 10

\* C19: no step changes the frame handed to expansion_frame_encode, whatever
\* send returns; a step of expansion_frame_decode, the callback having kept
\* to received_size <= data_size, changes nothing but bytes of the frame at
\* offsets below total_size: bytes of the frame at or beyond total_size keep
\* their values and no byte is stored past the end of the frame.
C19_FrameEffects ==
    [][ /\ tx_frame' = tx_frame
        /\ pc = "start" => frame' = frame
        /\ contract_ok' =>
               /\ \A i \in 1..SizeofFrame : i > total_size' => frame'[i] = frame[i]
               /\ pc = "recv" => recv_req[1] + (rpos' - rpos) <= SizeofFrame ]_vars

C5_UnknownSentinel ==
    pc = "eval" =>
        /\ (q_received >= SizeofHeader /\ HeaderType(q_frame) \notin KnownTypes)
                => q_remaining = SIZE_MAX
        /\ HeaderType(q_frame) \in KnownTypes => q_remaining # SIZE_MAX

C5_Witness ==
    /\ pc = "eval" /\ HeaderType(q_frame) = 255 /\ DataSize(q_frame) = 255
    /\ q_received = 2 /\ q_remaining = SIZE_MAX

\* C12: expansion_frame_get_encoded_size returns 1 for Heartbeat, 2 for
\* Status, 5 for BaudRate, 2 for Control, 2 + size for Data, and 0 exactly
\* for the types outside 1..5.
C12_EncodedSize ==
    pc = "eval" =>
        /\ HeaderType(q_frame) = ExpansionFrameTypeHeartbeat => q_encoded = 1
        /\ HeaderType(q_frame) = ExpansionFrameTypeStatus => q_encoded = 2
        /\ HeaderType(q_frame) = ExpansionFrameTypeBaudRate => q_encoded = 5
        /\ HeaderType(q_frame) = ExpansionFrameTypeControl => q_encoded = 2
        /\ HeaderType(q_frame) = ExpansionFrameTypeData => q_encoded = 2 + q_frame[2]
        /\ q_encoded = 0 <=> HeaderType(q_frame) \notin 1..5

C12_Witness ==
    /\ pc = "eval" /\ HeaderType(q_frame) = ExpansionFrameTypeData
    /\ q_frame[2] = 255 /\ q_encoded = 257

\* the content requirement as the claim C13 tabulates it
C13_Requirement(type, size_byte, received) ==
    CASE type = 1 -> 0
      [] type = 2 -> 1
      [] type = 3 -> 4
      [] type = 4 -> 1
      [] type = 5 -> IF received = 1 THEN 1 ELSE 1 + size_byte

\* C13: for a type in 1..5 and received_size >= 1 the evaluator returns
\* max(requirement - (received_size - 1), 0); for received_size = 0 it
\* returns 1 whatever the buffer holds.
C13_RemainingValue ==
    pc = "eval" =>
        /\ q_received = 0 => q_remaining = 1
        /\ (q_received >= 1 /\ HeaderType(q_frame) \in 1..5) =>
            LET d == C13_Requirement(HeaderType(q_frame), q_frame[2], q_received)
                        - (q_received - 1)
            IN  q_remaining = IF d > 0 THEN d ELSE 0

C13_Witness ==
    /\ pc = "eval" /\ HeaderType(q_frame) = ExpansionFrameTypeData
    /\ q_frame[2] = 64 /\ q_received = 70 /\ q_remaining = 0

====
